---- MODULE Spec2Model ----
(***************************************************************************)
(* Model of streamlitui.py: writer-role resolution of a replica            *)
(* (is_writer_pod), start-up of the vector store (init_vector_store),      *)
(* document ingestion (embed_documents) and the script run that calls      *)
(* them, for several replicas sharing one Weaviate store.                  *)
(*                                                                         *)
(* Text is modelled as a sequence of one-character strings, so that        *)
(* str.strip, str.lower, str.split, str.isdigit and int are computed and   *)
(* not assumed.                                                            *)
(***************************************************************************)
EXTENDS Integers, Sequences, FiniteSets, TLC

VARIABLES
    hostname,       \* replica -> socket.gethostname()
    roleFile,       \* replica -> state of /etc/podinfo/role
    replicaRole,    \* replica -> os.environ.get("REPLICA_ROLE", "")
    resolved,       \* replica -> outcome of the latest is_writer_pod() call
    firstRole,      \* replica -> role given by the first is_writer_pod() call
    collections,    \* store: number of collections named SFBUDocuments
    docCount,       \* store: number of objects in the collection
    pc,             \* replica -> position in the script run
    ensure,         \* replica -> progress record of the collection-ensuring step
    vector_store,   \* replica -> module global vector_store (FALSE is None)
    has_documents,  \* replica -> st.session_state.has_documents
    lastEmbed,      \* replica -> record of the latest embed_documents call
    missing,        \* replica -> the credential the environment lacks, or "none"
    llm,            \* replica -> module global llm (FALSE is None)
    retriever,      \* replica -> module global retriever (FALSE is None)
    lastAnswer,     \* replica -> record of the latest rag_chatbot_app call
    tempFiles,      \* replica -> number of staged upload files on its disk
    loadCall,       \* record of the latest load_documents call
    messages,       \* replica -> st.session_state.messages
    report          \* replica -> record of the latest process-button branch

vars == <<hostname, roleFile, replicaRole, resolved, firstRole, collections,
          docCount, pc, ensure, vector_store, has_documents, lastEmbed,
          missing, llm, retriever, lastAnswer, tempFiles, loadCall, messages,
          report>>

envVars == <<hostname, roleFile, replicaRole>>
storeVars == <<collections, docCount>>
procVars == <<pc, ensure, vector_store, has_documents, lastEmbed>>
chatVars == <<llm, retriever, lastAnswer, messages>>
fileVars == <<missing, tempFiles, loadCall, report>>

Replicas == {1, 2}

(***************************************************************************)
(* Text                                                                    *)
(***************************************************************************)
S_writer == <<"w", "r", "i", "t", "e", "r">>
S_reader == <<"r", "e", "a", "d", "e", "r">>
S_empty == <<>>

Whitespace == {" ", "\n", "\t"}
Digits == {"0", "1", "2", "3", "4", "5", "6", "7", "8", "9"}

\* str.lower on one character (the upper-case letters the inputs use)
LowerChar(c) ==
    CASE c = "W" -> "w"
      [] c = "R" -> "r"
      [] c = "I" -> "i"
      [] c = "T" -> "t"
      [] c = "E" -> "e"
      [] c = "A" -> "a"
      [] c = "D" -> "d"
      [] OTHER -> c

Lower(s) == [i \in 1..Len(s) |-> LowerChar(s[i])]

RECURSIVE LStrip(_)
LStrip(s) ==
    IF s # <<>> /\ Head(s) \in Whitespace THEN LStrip(Tail(s)) ELSE s

RECURSIVE RStrip(_)
RStrip(s) ==
    IF s # <<>> /\ s[Len(s)] \in Whitespace
    THEN RStrip(SubSeq(s, 1, Len(s) - 1))
    ELSE s

Strip(s) == RStrip(LStrip(s))

Contains(s, c) == \E i \in 1..Len(s) : s[i] = c

\* s.split(sep)[-1]: what follows the last occurrence of sep (all of s if none)
LastToken(s, sep) ==
    IF Contains(s, sep)
    THEN LET k == CHOOSE i \in 1..Len(s) :
                     /\ s[i] = sep
                     /\ \A j \in (i + 1)..Len(s) : s[j] # sep
         IN SubSeq(s, k + 1, Len(s))
    ELSE s

IsDigit(s) == s # <<>> /\ \A i \in 1..Len(s) : s[i] \in Digits

DigitVal(c) ==
    CASE c = "0" -> 0 [] c = "1" -> 1 [] c = "2" -> 2 [] c = "3" -> 3
      [] c = "4" -> 4 [] c = "5" -> 5 [] c = "6" -> 6 [] c = "7" -> 7
      [] c = "8" -> 8 [] c = "9" -> 9

RECURSIVE ParseInt(_)
ParseInt(s) ==
    IF s = <<>> THEN 0
    ELSE 10 * ParseInt(SubSeq(s, 1, Len(s) - 1)) + DigitVal(s[Len(s)])

\* code point order of the characters host names use
Ord(c) ==
    CASE c = "-" -> 45
      [] c \in Digits -> 48 + DigitVal(c)
      [] c = "a" -> 97 [] c = "b" -> 98 [] c = "c" -> 99 [] c = "d" -> 100
      [] c = "e" -> 101 [] c = "p" -> 112 [] c = "w" -> 119 [] c = "x" -> 120
      [] OTHER -> 122

RECURSIVE StrLess(_, _)
StrLess(a, b) ==
    IF b = <<>> THEN FALSE
    ELSE IF a = <<>> THEN TRUE
    ELSE IF Ord(Head(a)) < Ord(Head(b)) THEN TRUE
    ELSE IF Ord(Head(a)) > Ord(Head(b)) THEN FALSE
    ELSE StrLess(Tail(a), Tail(b))

\* sorted(list)[0]
SortedFirst(list) ==
    list[CHOOSE i \in 1..Len(list) :
             \A j \in 1..Len(list) : ~StrLess(list[j], list[i])]

(***************************************************************************)
(* Role resolution: is_writer_pod                                          *)
(***************************************************************************)
\* /etc/podinfo/role: exists is os.path.exists, readable is whether open and
\* read succeed, content is what read returns
NoRoleFile == [exists |-> FALSE, readable |-> FALSE, content |-> S_empty]
UnreadableRoleFile == [exists |-> TRUE, readable |-> FALSE, content |-> S_empty]
RoleFileWith(text) == [exists |-> TRUE, readable |-> TRUE, content |-> text]

\* the comparison of line 53 made case-insensitive
RoleFileSaysWriter_AnyCase(content) == Lower(Strip(content)) = S_writer
\* role = f.read().strip(); return role == "writer"
RoleFileSaysWriter(content) == Strip(content) = S_writer

\* the comparisons of lines 60 and 64 without lower()
EnvRole_CaseSensitive(replica_role) ==
    IF replica_role = S_writer THEN "Writer"
    ELSE IF replica_role = S_reader THEN "Reader"
    ELSE "none"
\* replica_role.lower() == "writer" / == "reader"
EnvRole(replica_role) ==
    IF Lower(replica_role) = S_writer THEN "Writer"
    ELSE IF Lower(replica_role) = S_reader THEN "Reader"
    ELSE "none"

\* pod_number with ordinals counted from 1
pod_number_OneBased(host) ==
    IF Contains(host, "-") /\ IsDigit(LastToken(host, "-"))
    THEN ParseInt(LastToken(host, "-")) - 1
    ELSE -1
\* pod_number, lines 69-77: -1, or the ordinal the host name ends with
pod_number(host) ==
    IF Contains(host, "-") /\ IsDigit(LastToken(host, "-"))
    THEN ParseInt(LastToken(host, "-"))
    ELSE -1

\* The outcome of one call: the role returned, or Fault when an exception
\* leaves the function, and the rule that decided.
is_writer_pod(file, replica_role, host) ==
    IF file.exists
    THEN IF file.readable
         THEN [role |-> IF RoleFileSaysWriter(file.content)
                        THEN "Writer" ELSE "Reader",
               rule |-> "role_file"]
         ELSE [role |-> "Fault", rule |-> "role_file"]
    ELSE IF EnvRole(replica_role) # "none"
    THEN [role |-> EnvRole(replica_role), rule |-> "env"]
    ELSE IF pod_number(host) = -1
    THEN [role |-> IF host = SortedFirst(<<host>>) THEN "Writer" ELSE "Reader",
          rule |-> "sorted"]
    ELSE [role |-> IF pod_number(host) = 0 THEN "Writer" ELSE "Reader",
          rule |-> "ordinal"]

NotResolved == [role |-> "none", rule |-> "none"]

(***************************************************************************)
(* Inputs                                                                  *)
(***************************************************************************)
H_app_0 == <<"a", "p", "p", "-", "0">>
H_app_1 == <<"a", "p", "p", "-", "1">>
H_app_10 == <<"a", "p", "p", "-", "1", "0">>
H_app_00 == <<"a", "p", "p", "-", "0", "0">>
H_web_abc == <<"w", "e", "b", "-", "a", "b", "c">>
H_web_x1 == <<"w", "e", "b", "-", "x", "1">>
H_db_2_x == <<"d", "b", "-", "2", "-", "x">>
H_pod == <<"p", "o", "d">>

Hostnames == {H_app_0, H_app_1, H_app_10, H_app_00, H_web_abc, H_web_x1,
              H_db_2_x, H_pod}

RoleFiles ==
    {NoRoleFile, UnreadableRoleFile,
     RoleFileWith(S_writer),
     RoleFileWith(<<"W", "r", "i", "t", "e", "r">>),
     RoleFileWith(<<" ", "w", "r", "i", "t", "e", "r", "\n">>),
     RoleFileWith(S_reader),
     RoleFileWith(S_empty)}

ReplicaRoles ==
    {S_empty, S_writer, <<"W", "R", "I", "T", "E", "R">>,
     S_reader, <<"R", "e", "a", "d", "e", "r">>,
     <<"a", "d", "m", "i", "n">>}

(***************************************************************************)
(* SpecRole: is_writer_pod applied to every environment of the replicas    *)
(***************************************************************************)
NoEnsure ==
    [lookup |-> "none", create |-> "none", relookup |-> "none",
     fault |-> FALSE, result |-> "none", count |-> "none", returned |-> FALSE]

NoEmbed == [ret |-> "none", notice |-> "none", add_called |-> FALSE,
            role |-> "none"]

NoAnswer == [text |-> "none", chain |-> "none", retrieved |-> FALSE,
             generated |-> FALSE, fault |-> FALSE]

\* no process button pressed in this script run
NoReport == [doc_type |-> "none", emitted |-> FALSE]

NoLoad == [kind |-> "none", loader |-> "none", arg |-> "none", ran |-> FALSE,
           result |-> "none", docs |-> 0, chunks |-> 0]

ProcessInit ==
    /\ resolved = [r \in Replicas |-> NotResolved]
    /\ firstRole = [r \in Replicas |-> "none"]
    /\ pc = [r \in Replicas |-> "idle"]
    /\ ensure = [r \in Replicas |-> NoEnsure]
    /\ vector_store = [r \in Replicas |-> FALSE]
    /\ has_documents = [r \in Replicas |-> FALSE]
    /\ lastEmbed = [r \in Replicas |-> NoEmbed]
    /\ llm = [r \in Replicas |-> FALSE]
    /\ retriever = [r \in Replicas |-> FALSE]
    /\ lastAnswer = [r \in Replicas |-> NoAnswer]
    /\ tempFiles = [r \in Replicas |-> 0]
    /\ loadCall = NoLoad
    /\ messages = [r \in Replicas |-> <<>>]
    /\ report = [r \in Replicas |-> NoReport]

RoleInit ==
    /\ hostname \in [Replicas -> Hostnames]
    /\ \A r1, r2 \in Replicas : r1 # r2 => hostname[r1] # hostname[r2]
    /\ roleFile \in [Replicas -> RoleFiles]
    /\ replicaRole \in [Replicas -> ReplicaRoles]
    /\ collections = 0
    /\ docCount = 0
    /\ missing = [r \in Replicas |-> "none"]
    /\ ProcessInit

\* One call of is_writer_pod() on replica r
Resolve(r) ==
    /\ resolved[r] = NotResolved
    /\ resolved' = [resolved EXCEPT
                       ![r] = is_writer_pod(roleFile[r], replicaRole[r], hostname[r])]
    /\ firstRole' = [firstRole EXCEPT ![r] = resolved'[r].role]
    /\ UNCHANGED <<envVars, storeVars, procVars, chatVars, fileVars>>

RoleNext == \E r \in Replicas : Resolve(r)

SpecRole == RoleInit /\ [][RoleNext]_vars

(***************************************************************************)
(* Spec: the script runs of one session, in every environment, against    *)
(* the shared store; its runs carry widget events of the upload interface *)
(* (chat inputs are in SpecChat)                                           *)
(***************************************************************************)
MaxChunks == 1
MaxObjects == 2
MaxTempFiles == 1

MainHostnames == {H_app_0, H_app_1, H_web_abc}
MainRoleFiles == {NoRoleFile, UnreadableRoleFile, RoleFileWith(S_writer),
                  RoleFileWith(S_reader)}
MainReplicaRoles == {S_empty, S_reader, <<"W", "R", "I", "T", "E", "R">>}

\* lines 32-34: the credentials and the URL the start-up needs
Credentials == {"OPENAI_API_KEY", "WEAVIATE_URL", "WEAVIATE_API_KEY"}

\* The script runs on a replica only while a browser session is connected to
\* it: Spec follows the session of one replica, SpecStartup the start-up of
\* all of them.
Sessions == {1}

Init ==
    /\ hostname \in [Replicas -> MainHostnames]
    /\ \A r1, r2 \in Replicas : r1 # r2 => hostname[r1] # hostname[r2]
    /\ roleFile \in [Replicas -> MainRoleFiles]
    /\ replicaRole \in [Replicas -> MainReplicaRoles]
    /\ \A r \in Replicas \ Sessions :
          /\ roleFile[r] = NoRoleFile /\ replicaRole[r] = S_empty
          /\ \A h \in MainHostnames \ {hostname[r]} :
                h \in {hostname[q] : q \in Sessions} \/ StrLess(hostname[r], h)
    /\ missing \in [Replicas -> Credentials \cup {"none"}]
    /\ \A r \in Replicas \ Sessions : missing[r] = "none"
    /\ collections \in {0, 1}
    /\ docCount \in 0..MaxObjects
    /\ collections = 0 => docCount = 0
    /\ ProcessInit

\* weaviate_client.collections.get(name), as init_vector_store relies on it:
\* it raises when the store cannot be reached or holds no such collection
CollectionsGetOk(up) == up /\ collections > 0

\* weaviate_client.collections.create(name=...): the store refuses a name it holds
CollectionsCreateOk(up) == up /\ collections = 0

\* Lines 29-43 and 234-239: a script run starts; load_dotenv() sets
\* REPLICA_ROLE only where the environment does not hold it, and the three
\* clients are built (None when a constructor raises). With a credential
\* missing, st.stop() of lines 93, 109, 125, 130 ends the script run there:
\* its StopException is no Exception, so lines 98, 114, 150 do not catch it.
StartRun(r) ==
    /\ pc[r] \in {"idle", "stopped"}
    /\ \E v \in MainReplicaRoles, llmOk \in BOOLEAN, restOk \in BOOLEAN :
          /\ replicaRole' = [replicaRole EXCEPT
                                ![r] = IF replicaRole[r] = S_empty THEN v ELSE @]
          /\ IF missing[r] # "none"
             THEN /\ pc' = [pc EXCEPT ![r] = "stopped"]
                  /\ llm' = [llm EXCEPT ![r] = FALSE]
             ELSE /\ pc' = [pc EXCEPT ![r] = IF llmOk /\ restOk
                                                THEN "lookup" ELSE "sidebar"]
                  /\ llm' = [llm EXCEPT ![r] = llmOk]
    /\ ensure' = [ensure EXCEPT ![r] = NoEnsure]
    /\ lastEmbed' = [lastEmbed EXCEPT ![r] = NoEmbed]
    /\ lastAnswer' = [lastAnswer EXCEPT ![r] = NoAnswer]
    /\ vector_store' = [vector_store EXCEPT ![r] = FALSE]
    /\ retriever' = [retriever EXCEPT ![r] = FALSE]
    /\ report' = [report EXCEPT ![r] = NoReport]
    /\ UNCHANGED <<hostname, roleFile, resolved, firstRole, storeVars,
                   has_documents, missing, tempFiles, loadCall, messages>>

\* init_vector_store, lines 161-169: the first lookup
EnsureLookup(r) ==
    /\ pc[r] = "lookup"
    /\ \E up \in BOOLEAN :
          IF CollectionsGetOk(up)
          THEN /\ ensure' = [ensure EXCEPT ![r].lookup = "ok", ![r].result = "ok"]
               /\ pc' = [pc EXCEPT ![r] = "finish"]
          ELSE /\ ensure' = [ensure EXCEPT ![r].lookup = "failed",
                                           ![r].fault = @ \/ ~up]
               /\ pc' = [pc EXCEPT ![r] = "create"]
    /\ UNCHANGED <<envVars, resolved, firstRole, storeVars, vector_store,
                   has_documents, lastEmbed, chatVars, fileVars>>

\* init_vector_store, lines 172-198 without the re-lookup of lines 199-205:
\* a failed creation raises at once
EnsureCreate_NoRelookup(r) ==
    /\ pc[r] = "create"
    /\ \E up \in BOOLEAN :
          IF CollectionsCreateOk(up)
          THEN /\ collections' = collections + 1
               /\ ensure' = [ensure EXCEPT ![r].create = "ok", ![r].result = "ok"]
               /\ pc' = [pc EXCEPT ![r] = "finish"]
               /\ UNCHANGED vector_store
          ELSE /\ UNCHANGED collections
               /\ ensure' = [ensure EXCEPT ![r].create = "failed",
                                           ![r].fault = @ \/ ~up,
                                           ![r].result = "raised"]
               /\ vector_store' = [vector_store EXCEPT ![r] = FALSE]
               /\ pc' = [pc EXCEPT ![r] = "sidebar"]
    /\ UNCHANGED <<envVars, resolved, firstRole, docCount, has_documents, lastEmbed,
                   chatVars, fileVars>>

\* init_vector_store, lines 172-198: the creation attempt
EnsureCreate(r) ==
    /\ pc[r] = "create"
    /\ \E up \in BOOLEAN :
          IF CollectionsCreateOk(up)
          THEN /\ collections' = collections + 1
               /\ ensure' = [ensure EXCEPT ![r].create = "ok", ![r].result = "ok"]
               /\ pc' = [pc EXCEPT ![r] = "finish"]
          ELSE /\ UNCHANGED collections
               /\ ensure' = [ensure EXCEPT ![r].create = "failed",
                                           ![r].fault = @ \/ ~up]
               /\ pc' = [pc EXCEPT ![r] = "relookup"]
    /\ UNCHANGED <<envVars, resolved, firstRole, docCount, vector_store,
                   has_documents, lastEmbed, chatVars, fileVars>>

\* init_vector_store, lines 199-205 with the raise outside the inner try: the
\* step raises although the re-lookup found the collection
EnsureRelookup_RaisesAnyway(r) ==
    /\ pc[r] = "relookup"
    /\ \E up \in BOOLEAN :
          /\ ensure' = [ensure EXCEPT
                           ![r].relookup = IF CollectionsGetOk(up)
                                           THEN "ok" ELSE "failed",
                           ![r].fault = @ \/ ~up,
                           ![r].result = "raised"]
          /\ vector_store' = [vector_store EXCEPT ![r] = FALSE]
          /\ pc' = [pc EXCEPT ![r] = "sidebar"]
    /\ UNCHANGED <<envVars, resolved, firstRole, storeVars, has_documents, lastEmbed,
                   chatVars, fileVars>>

\* init_vector_store, lines 199-205 and 228-230, and lines 250-253 of its
\* caller: the re-lookup after a failed creation; its failure is raised
EnsureRelookup(r) ==
    /\ pc[r] = "relookup"
    /\ \E up \in BOOLEAN :
          IF CollectionsGetOk(up)
          THEN /\ ensure' = [ensure EXCEPT ![r].relookup = "ok", ![r].result = "ok"]
               /\ pc' = [pc EXCEPT ![r] = "finish"]
               /\ UNCHANGED vector_store
          ELSE /\ ensure' = [ensure EXCEPT ![r].relookup = "failed",
                                           ![r].fault = @ \/ ~up,
                                           ![r].result = "raised"]
               /\ vector_store' = [vector_store EXCEPT ![r] = FALSE]
               /\ pc' = [pc EXCEPT ![r] = "sidebar"]
    /\ UNCHANGED <<envVars, resolved, firstRole, storeVars, has_documents, lastEmbed,
                   chatVars, fileVars>>

\* what collection.count() of lines 216-219 gives: the count request fails,
\* or the collection holds no object, or some
CountSeen(up) ==
    IF ~CollectionsGetOk(up) THEN "failed"
    ELSE IF docCount > 0 THEN "positive" ELSE "zero"

\* FinishInit with line 223 assigning the flag from the count
\* (has_documents = count > 0) instead of only raising it
FinishInit_AssignsFlag(r) ==
    /\ pc[r] = "finish"
    /\ \E ctorOk \in BOOLEAN, countUp \in BOOLEAN, retrOk \in BOOLEAN :
          IF ctorOk
          THEN /\ ensure' = [ensure EXCEPT ![r].count = CountSeen(countUp),
                                           ![r].returned = TRUE]
               /\ has_documents' =
                      [has_documents EXCEPT
                          ![r] = CountSeen(countUp) = "positive"]
               /\ vector_store' = [vector_store EXCEPT ![r] = retrOk]
               /\ retriever' = [retriever EXCEPT ![r] = retrOk]
          ELSE /\ vector_store' = [vector_store EXCEPT ![r] = FALSE]
               /\ retriever' = [retriever EXCEPT ![r] = FALSE]
               /\ UNCHANGED <<has_documents, ensure>>
    /\ pc' = [pc EXCEPT ![r] = "sidebar"]
    /\ UNCHANGED <<envVars, resolved, firstRole, storeVars, lastEmbed, llm,
                   lastAnswer, messages, fileVars>>

\* FinishInit without the try/except of lines 216 and 224-225: a failing
\* count request leaves init_vector_store as an exception
FinishInit_CountFailureRaises(r) ==
    /\ pc[r] = "finish"
    /\ \E ctorOk \in BOOLEAN, countUp \in BOOLEAN, retrOk \in BOOLEAN :
          IF ctorOk /\ CountSeen(countUp) # "failed"
          THEN /\ ensure' = [ensure EXCEPT ![r].count = CountSeen(countUp),
                                           ![r].returned = TRUE]
               /\ has_documents' =
                      [has_documents EXCEPT
                          ![r] = IF CountSeen(countUp) = "positive" THEN TRUE ELSE @]
               /\ vector_store' = [vector_store EXCEPT ![r] = retrOk]
               /\ retriever' = [retriever EXCEPT ![r] = retrOk]
          ELSE /\ vector_store' = [vector_store EXCEPT ![r] = FALSE]
               /\ retriever' = [retriever EXCEPT ![r] = FALSE]
               /\ ensure' = [ensure EXCEPT
                                ![r].count = IF ctorOk THEN "failed" ELSE @]
               /\ UNCHANGED has_documents
    /\ pc' = [pc EXCEPT ![r] = "sidebar"]
    /\ UNCHANGED <<envVars, resolved, firstRole, storeVars, lastEmbed, llm,
                   lastAnswer, messages, fileVars>>

\* init_vector_store, lines 207-230, and lines 241-253 of its caller: the
\* vector store object is built, the document count seeds has_documents, the
\* function returns, and the retriever is made; an exception of the
\* constructor or of as_retriever leaves vector_store and retriever None
FinishInit(r) ==
    /\ pc[r] = "finish"
    /\ \E ctorOk \in BOOLEAN, countUp \in BOOLEAN, retrOk \in BOOLEAN :
          IF ctorOk
          THEN /\ ensure' = [ensure EXCEPT ![r].count = CountSeen(countUp),
                                           ![r].returned = TRUE]
               /\ has_documents' =
                      [has_documents EXCEPT
                          ![r] = IF CountSeen(countUp) = "positive" THEN TRUE ELSE @]
               /\ vector_store' = [vector_store EXCEPT ![r] = retrOk]
               /\ retriever' = [retriever EXCEPT ![r] = retrOk]
          ELSE /\ vector_store' = [vector_store EXCEPT ![r] = FALSE]
               /\ retriever' = [retriever EXCEPT ![r] = FALSE]
               /\ UNCHANGED <<has_documents, ensure>>
    /\ pc' = [pc EXCEPT ![r] = "sidebar"]
    /\ UNCHANGED <<envVars, resolved, firstRole, storeVars, lastEmbed, llm,
                   lastAnswer, messages, fileVars>>

RoleCall(r) == is_writer_pod(roleFile[r], replicaRole[r], hostname[r])

\* what a call of is_writer_pod() on r leaves in resolved and firstRole
NoteRole(r, res) ==
    /\ resolved' = [resolved EXCEPT ![r] = res]
    /\ firstRole' = [firstRole EXCEPT
                        ![r] = IF @ = "none" /\ res.role # "Fault"
                               THEN res.role ELSE @]

\* Lines 351-355: the pod role indicator. An exception of is_writer_pod()
\* is caught nowhere and ends the script run.
Sidebar(r) ==
    /\ pc[r] = "sidebar"
    /\ NoteRole(r, RoleCall(r))
    /\ pc' = [pc EXCEPT ![r] = IF RoleCall(r).role = "Fault"
                               THEN "idle" ELSE "upload_gate"]
    /\ UNCHANGED <<envVars, storeVars, ensure, vector_store, has_documents,
                   lastEmbed, chatVars, fileVars>>

\* Lines 366-367 and 438-441: the upload interface is shown to a writer only
UploadGate(r) ==
    /\ pc[r] = "upload_gate"
    /\ NoteRole(r, RoleCall(r))
    /\ pc' = [pc EXCEPT ![r] = CASE RoleCall(r).role = "Fault" -> "idle"
                                 [] RoleCall(r).role = "Writer" -> "upload"
                                 [] OTHER -> "chat"]
    /\ UNCHANGED <<envVars, storeVars, ensure, vector_store, has_documents,
                   lastEmbed, chatVars, fileVars>>

\* embed_documents without the writer gate of lines 290-295
embed_documents_NoGate(vs, role, addOk) ==
    IF ~vs
    THEN [ret |-> "False", notice |-> "error_not_initialized",
          add_called |-> FALSE, role |-> "none"]
    ELSE IF addOk
    THEN [ret |-> "True", notice |-> "success", add_called |-> TRUE,
          role |-> role.role]
    ELSE [ret |-> "False", notice |-> "error_embedding", add_called |-> TRUE,
          role |-> role.role]

\* embed_documents without the try/except of lines 297 and 303-305
embed_documents_NoTry(vs, role, addOk) ==
    IF ~vs
    THEN [ret |-> "False", notice |-> "error_not_initialized",
          add_called |-> FALSE, role |-> "none"]
    ELSE IF role.role = "Fault"
    THEN [ret |-> "raised", notice |-> "none", add_called |-> FALSE,
          role |-> "Fault"]
    ELSE IF role.role # "Writer"
    THEN [ret |-> "False", notice |-> "warning_not_writer",
          add_called |-> FALSE, role |-> role.role]
    ELSE IF addOk
    THEN [ret |-> "True", notice |-> "success", add_called |-> TRUE,
          role |-> role.role]
    ELSE [ret |-> "raised", notice |-> "none", add_called |-> TRUE,
          role |-> role.role]

\* embed_documents(docs), lines 285-305: what it returns ("raised" when the
\* exception of is_writer_pod() leaves it), the notice it shows, whether
\* vector_store.add_documents was called, and the role its gate resolved.
\* vs is the global vector_store, role the outcome of is_writer_pod(), addOk
\* whether add_documents returns.
embed_documents(vs, role, addOk) ==
    IF ~vs
    THEN [ret |-> "False", notice |-> "error_not_initialized",
          add_called |-> FALSE, role |-> "none"]
    ELSE IF role.role = "Fault"
    THEN [ret |-> "raised", notice |-> "none", add_called |-> FALSE,
          role |-> "Fault"]
    ELSE IF role.role # "Writer"
    THEN [ret |-> "False", notice |-> "warning_not_writer",
          add_called |-> FALSE, role |-> role.role]
    ELSE IF addOk
    THEN [ret |-> "True", notice |-> "success", add_called |-> TRUE,
          role |-> role.role]
    ELSE [ret |-> "False", notice |-> "error_embedding", add_called |-> TRUE,
          role |-> role.role]

\* st.selectbox of line 369
DocTypes == {"PDF", "Text", "Web", "Wikipedia"}

\* Lines 380-387, 401-408, 416-423 and 427-436: what the branch of the pressed
\* button reports, given what embed_documents did in it (ret), "not_called"
\* when load_documents raised first. The PDF and Text branches call
\* st.success after embed_documents returns, whatever it returned; the Web
\* and Wikipedia branches call it under `if embed_documents(docs)`. An
\* exception goes to the except clause, past st.success.
process_report(doc_type, ret) ==
    [doc_type |-> doc_type,
     emitted |-> IF ret \in {"not_called", "raised"} THEN FALSE
                 ELSE IF doc_type \in {"PDF", "Text"} THEN TRUE
                 ELSE ret = "True"]

\* Lines 372-436: a process button is pressed. load_documents yields n chunks
\* or raises; embed_documents(docs) follows; every exception is caught by the
\* branch's except clause. The press is the one widget event of this script
\* run, so st.chat_input of line 459 gives nothing in it ("rest").
Process(r) ==
    /\ pc[r] = "upload"
    /\ \E doc_type \in DocTypes, loadOk \in BOOLEAN, n \in 0..MaxChunks,
          addOk \in BOOLEAN :
          IF ~loadOk
          THEN /\ report' = [report EXCEPT
                                ![r] = process_report(doc_type, "not_called")]
               /\ UNCHANGED <<resolved, firstRole, docCount, has_documents,
                              lastEmbed>>
          ELSE LET e == embed_documents(vector_store[r], RoleCall(r), addOk)
               IN /\ docCount + n <= MaxObjects
                  /\ report' = [report EXCEPT
                                   ![r] = process_report(doc_type, e.ret)]
                  /\ lastEmbed' = [lastEmbed EXCEPT ![r] = e]
                  /\ IF vector_store[r]
                     THEN NoteRole(r, RoleCall(r))
                     ELSE UNCHANGED <<resolved, firstRole>>
                  /\ docCount' = IF e.ret = "True" THEN docCount + n ELSE docCount
                  /\ has_documents' = [has_documents EXCEPT
                                          ![r] = IF e.ret = "True" THEN TRUE ELSE @]
    /\ pc' = [pc EXCEPT ![r] = "rest"]
    /\ UNCHANGED <<envVars, collections, ensure, vector_store, chatVars, missing,
                   tempFiles, loadCall>>

\* Lines 369-436 when no process button is pressed in this run. With a PDF
\* or text file in the uploader (staged), lines 374-378 and 395-399 write it
\* to a NamedTemporaryFile(delete=False); the os.unlink of lines 388-391 and
\* 409-412 is inside the button's branch and does not run.
SkipUpload(r) ==
    /\ pc[r] = "upload"
    /\ \E staged \in BOOLEAN :
          /\ staged => tempFiles[r] < MaxTempFiles
          /\ tempFiles' = [tempFiles EXCEPT ![r] = IF staged THEN @ + 1 ELSE @]
    /\ pc' = [pc EXCEPT ![r] = "chat"]
    /\ UNCHANGED <<envVars, resolved, firstRole, storeVars, ensure, vector_store,
                   has_documents, lastEmbed, chatVars, missing, loadCall,
                   report>>

\* rag_chatbot_app without the has_documents check of lines 312-315
rag_chatbot_app_NoGate(retr, hasDocs, llmv, chain) ==
    IF ~retr
    THEN [text |-> "not_initialized", chain |-> "none", retrieved |-> FALSE,
          generated |-> FALSE, fault |-> FALSE]
    ELSE IF ~llmv
    THEN [text |-> "llm_not_initialized", chain |-> "none", retrieved |-> FALSE,
          generated |-> FALSE, fault |-> FALSE]
    ELSE [text |-> IF chain = "ok" THEN "answer" ELSE "error_description",
          chain |-> chain, retrieved |-> TRUE,
          generated |-> chain # "retrieval_fails", fault |-> FALSE]

\* rag_chatbot_app without the try/except of lines 330 and 343-345
rag_chatbot_app_NoTry(retr, hasDocs, llmv, chain) ==
    IF ~retr
    THEN [text |-> "not_initialized", chain |-> "none", retrieved |-> FALSE,
          generated |-> FALSE, fault |-> FALSE]
    ELSE IF ~hasDocs
    THEN [text |-> "no_documents", chain |-> "none", retrieved |-> FALSE,
          generated |-> FALSE, fault |-> FALSE]
    ELSE IF ~llmv
    THEN [text |-> "llm_not_initialized", chain |-> "none", retrieved |-> FALSE,
          generated |-> FALSE, fault |-> FALSE]
    ELSE [text |-> IF chain = "ok" THEN "answer" ELSE "none",
          chain |-> chain, retrieved |-> TRUE,
          generated |-> chain # "retrieval_fails", fault |-> chain # "ok"]

\* what main_chain.invoke(question) of line 342 does: the retriever runs, then
\* the completion model; either may raise
ChainOutcomes == {"ok", "retrieval_fails", "generation_fails"}

\* rag_chatbot_app(question), lines 308-345: the text it returns (text),
\* whether the retriever and the completion model were invoked, and whether
\* an exception left it (fault). retr, hasDocs, llmv are the globals
\* retriever, st.session_state.has_documents and llm.
rag_chatbot_app(retr, hasDocs, llmv, chain) ==
    IF ~retr
    THEN [text |-> "not_initialized", chain |-> "none", retrieved |-> FALSE,
          generated |-> FALSE, fault |-> FALSE]
    ELSE IF ~hasDocs
    THEN [text |-> "no_documents", chain |-> "none", retrieved |-> FALSE,
          generated |-> FALSE, fault |-> FALSE]
    ELSE IF ~llmv
    THEN [text |-> "llm_not_initialized", chain |-> "none", retrieved |-> FALSE,
          generated |-> FALSE, fault |-> FALSE]
    ELSE [text |-> IF chain = "ok" THEN "answer" ELSE "error_description",
          chain |-> chain, retrieved |-> TRUE,
          generated |-> chain # "retrieval_fails", fault |-> FALSE]

\* longest chat log a session builds up, in messages
MaxMessages == 4

\* what the user types into st.chat_input
Prompts == {"q1", "q2"}

\* Chat with line 460 and lines 473-475 assigning a fresh list in place of
\* appending to st.session_state.messages
Chat_OverwritesLog(r) ==
    /\ pc[r] = "chat"
    /\ Len(messages[r]) + 2 <= MaxMessages
    /\ \E prompt \in Prompts, chain \in ChainOutcomes :
          LET res == rag_chatbot_app(retriever[r], has_documents[r], llm[r], chain)
          IN /\ lastAnswer' = [lastAnswer EXCEPT ![r] = res]
             /\ messages' =
                   [messages EXCEPT
                      ![r] = <<[role |-> "user", content |-> prompt],
                               [role |-> "assistant",
                                content |-> IF res.fault THEN "error_message"
                                            ELSE res.text]>>]
    /\ pc' = [pc EXCEPT ![r] = "idle"]
    /\ UNCHANGED <<envVars, resolved, firstRole, storeVars, ensure, vector_store,
                   has_documents, lastEmbed, llm, retriever, fileVars>>

\* Lines 458-482: a chat input arrives in a session whose log has room for
\* one more exchange. Line 460 appends the user's message; the response of
\* rag_chatbot_app(prompt) is appended at lines 473-475, or, when an
\* exception left it, the error message at lines 480-482; the script run
\* ends.
Chat(r) ==
    /\ pc[r] = "chat"
    /\ Len(messages[r]) + 2 <= MaxMessages
    /\ \E prompt \in Prompts, chain \in ChainOutcomes :
          LET res == rag_chatbot_app(retriever[r], has_documents[r], llm[r], chain)
          IN /\ lastAnswer' = [lastAnswer EXCEPT ![r] = res]
             /\ messages' =
                   [messages EXCEPT
                      ![r] = (@ \o <<[role |-> "user", content |-> prompt]>>)
                             \o <<[role |-> "assistant",
                                   content |-> IF res.fault THEN "error_message"
                                               ELSE res.text]>>]
    /\ pc' = [pc EXCEPT ![r] = "idle"]
    /\ UNCHANGED <<envVars, resolved, firstRole, storeVars, ensure, vector_store,
                   has_documents, lastEmbed, llm, retriever, fileVars>>

\* Lines 443-482 with no chat input: the script run ends
FinishRun(r) ==
    /\ pc[r] \in {"chat", "rest"}
    /\ pc' = [pc EXCEPT ![r] = "idle"]
    /\ UNCHANGED <<envVars, resolved, firstRole, storeVars, ensure, vector_store,
                   has_documents, lastEmbed, chatVars, fileVars>>

\* The environment: /etc/podinfo/role, read at line 50, is a mounted file
\* that its owner may replace, remove or protect at any time
RoleFileChanges(r) ==
    /\ \E f \in MainRoleFiles \ {roleFile[r]} :
          roleFile' = [roleFile EXCEPT ![r] = f]
    /\ UNCHANGED <<hostname, replicaRole, resolved, firstRole, storeVars, procVars,
                   chatVars, fileVars>>

Next ==
    \E r \in Sessions :
        \/ StartRun(r)
        \/ EnsureLookup(r)
        \/ EnsureCreate(r)
        \/ EnsureRelookup(r)
        \/ FinishInit(r)
        \/ Sidebar(r)
        \/ UploadGate(r)
        \/ Process(r)
        \/ SkipUpload(r)
        \/ FinishRun(r)
        \/ RoleFileChanges(r)

Spec == Init /\ [][Next]_vars

(***************************************************************************)
(* SpecStartup: sessions connect to every replica and each runs the        *)
(* start-up part of the script, lines 29-257, against the shared store     *)
(***************************************************************************)
StartupInit ==
    /\ hostname = [r \in Replicas |-> IF r = 1 THEN H_app_0 ELSE H_app_1]
    /\ roleFile = [r \in Replicas |-> NoRoleFile]
    /\ replicaRole = [r \in Replicas |-> S_empty]
    /\ missing = [r \in Replicas |-> "none"]
    /\ collections \in {0, 1}
    /\ docCount \in 0..MaxObjects
    /\ collections = 0 => docCount = 0
    /\ ProcessInit

StartupNext ==
    \E r \in Replicas :
        \/ StartRun(r)
        \/ EnsureLookup(r)
        \/ EnsureCreate(r)
        \/ EnsureRelookup(r)
        \/ FinishInit(r)

SpecStartup == StartupInit /\ [][StartupNext]_vars

(***************************************************************************)
(* SpecLoad: load_documents, lines 269-282, as a function of its arguments *)
(* and of what the loader it runs does                                     *)
(***************************************************************************)
\* most documents one loader.load() gives back
MaxDocs == 2

\* the loader_type arguments tried; Omitted is a call that leaves the
\* argument out, so that the default of line 269 applies
Omitted == "<omitted>"

LoaderTypes ==
    {"pdf", "text", "web", "wiki", "encyclopedia", "PDF", "Wikipedia", "docx",
     "", Omitted}

FilePaths ==
    {"/tmp/tmpa.pdf", "/tmp/tmpb.txt", "https://example.org/", "Alan Turing", ""}

\* what loader.load() does: it raises, or gives d documents that the
\* splitter of lines 259-266 cuts into n chunks
LoadOutcomes ==
    {[ok |-> FALSE, d |-> 0, n |-> 0]}
    \cup {[ok |-> TRUE, d |-> d, n |-> n] :
             d \in 0..MaxDocs, n \in 0..MaxChunks}

\* load_documents with an else branch that falls back to the PDF loader
load_documents_FallsBackToPdf(file_path, given, out) ==
    LET loader_type == IF given = Omitted THEN "pdf" ELSE given
        loader == IF loader_type = "text" THEN "TextLoader"
                  ELSE IF loader_type = "web" THEN "WebBaseLoader"
                  ELSE IF loader_type = "wiki" THEN "WikipediaLoader"
                  ELSE "PyPDFLoader"
    IN  [kind |-> loader_type, loader |-> loader, arg |-> file_path,
         ran |-> TRUE,
         result |-> IF out.ok THEN "chunks" ELSE "loader_raised",
         docs |-> IF out.ok THEN out.d ELSE 0,
         chunks |-> IF out.ok /\ out.d > 0 THEN out.n ELSE 0]

\* load_documents(file_path, loader_type="pdf"), lines 269-282
load_documents(file_path, given, out) ==
    LET loader_type == IF given = Omitted THEN "pdf" ELSE given
        loader == IF loader_type = "pdf" THEN "PyPDFLoader"
                  ELSE IF loader_type = "text" THEN "TextLoader"
                  ELSE IF loader_type = "web" THEN "WebBaseLoader"
                  ELSE IF loader_type = "wiki" THEN "WikipediaLoader"
                  ELSE "none"
    IN  IF loader = "none"
        THEN [kind |-> loader_type, loader |-> "none", arg |-> "none",
              ran |-> FALSE, result |-> "ValueError", docs |-> 0, chunks |-> 0]
        ELSE [kind |-> loader_type, loader |-> loader, arg |-> file_path,
              ran |-> TRUE,
              result |-> IF out.ok THEN "chunks" ELSE "loader_raised",
              docs |-> IF out.ok THEN out.d ELSE 0,
              chunks |-> IF out.ok /\ out.d > 0 THEN out.n ELSE 0]

LoadInit ==
    /\ hostname = [r \in Replicas |-> H_app_0]
    /\ roleFile = [r \in Replicas |-> NoRoleFile]
    /\ replicaRole = [r \in Replicas |-> S_empty]
    /\ missing = [r \in Replicas |-> "none"]
    /\ collections = 0
    /\ docCount = 0
    /\ ProcessInit

LoadDocuments ==
    /\ \E file_path \in FilePaths, given \in LoaderTypes, out \in LoadOutcomes :
          loadCall' = load_documents(file_path, given, out)
    /\ UNCHANGED <<envVars, resolved, firstRole, storeVars, procVars, chatVars,
                   missing, tempFiles, report>>

LoadNext == LoadDocuments

SpecLoad == LoadInit /\ [][LoadNext]_vars

(***************************************************************************)
(* SpecChat: the script runs of one session, chat inputs included, on a    *)
(* replica whose environment is complete and does not change; the session  *)
(* keeps its log st.session_state.messages from run to run                 *)
(***************************************************************************)
ChatInit ==
    /\ hostname = [r \in Replicas |-> IF r \in Sessions THEN H_app_0 ELSE H_app_1]
    /\ roleFile = [r \in Replicas |-> NoRoleFile]
    /\ replicaRole = [r \in Replicas |-> S_empty]
    /\ missing = [r \in Replicas |-> "none"]
    /\ collections \in {0, 1}
    /\ docCount \in 0..MaxObjects
    /\ collections = 0 => docCount = 0
    /\ ProcessInit

ChatNext ==
    \E r \in Sessions :
        \/ StartRun(r)
        \/ EnsureLookup(r)
        \/ EnsureCreate(r)
        \/ EnsureRelookup(r)
        \/ FinishInit(r)
        \/ Sidebar(r)
        \/ UploadGate(r)
        \/ Process(r)
        \/ SkipUpload(r)
        \/ Chat(r)
        \/ FinishRun(r)

SpecChat == ChatInit /\ [][ChatNext]_vars

(***************************************************************************)
(* Properties of role resolution, checked under SpecRole                   *)
(***************************************************************************)
\* content is word between leading and trailing whitespace only
TrimmedEquals(content, word) ==
    \E i \in 1..(Len(content) + 1) :
        /\ i + Len(word) - 1 <= Len(content)
        /\ SubSeq(content, i, i + Len(word) - 1) = word
        /\ \A k \in 1..Len(content) :
              (k < i \/ k > i + Len(word) - 1) => content[k] \in Whitespace

\* s is word in some letter case
SameLetters(s, word) ==
    /\ Len(s) = Len(word)
    /\ \A i \in 1..Len(word) : s[i] = word[i] \/ LowerChar(s[i]) = word[i]

HasResolved(r) == resolved[r] # NotResolved
NoOverride(r) ==
    /\ ~roleFile[r].exists
    /\ ~SameLetters(replicaRole[r], S_writer)
    /\ ~SameLetters(replicaRole[r], S_reader)
EndsInOrdinal(r) ==
    /\ Contains(hostname[r], "-")
    /\ IsDigit(LastToken(hostname[r], "-"))
Writers == {r \in Replicas : resolved[r].role = "Writer"}

\* C1: among replicas with distinct host names, none with a role file, a
\* REPLICA_ROLE value or a numeric ordinal suffix, exactly one resolves to
\* Writer once each has run is_writer_pod().
C1_ExactlyOneWriter ==
    (\A r \in Replicas :
        /\ HasResolved(r)
        /\ ~roleFile[r].exists
        /\ replicaRole[r] = S_empty
        /\ ~IsDigit(LastToken(hostname[r], "-")))
    => Cardinality(Writers) = 1

\* C2: with a readable role file, the result is Writer iff the trimmed
\* content is exactly "writer", whatever REPLICA_ROLE and the host name are;
\* every other content gives Reader, and no later rule decides.
C2_RoleFileDecides ==
    \A r \in Replicas :
        (HasResolved(r) /\ roleFile[r].exists /\ roleFile[r].readable)
        => /\ resolved[r].rule = "role_file"
           /\ resolved[r].role =
                 IF TrimmedEquals(roleFile[r].content, S_writer)
                 THEN "Writer" ELSE "Reader"

C2_Witness ==
    \E r \in Replicas :
        /\ roleFile[r] = RoleFileWith(<<"W", "r", "i", "t", "e", "r">>)
        /\ replicaRole[r] = S_writer
        /\ hostname[r] = H_app_0
        /\ resolved[r].role = "Reader"

\* C3: without a role file, REPLICA_ROLE "writer" in any letter case gives
\* Writer and "reader" gives Reader, whatever the host name is; any other
\* value leaves the decision to the host name rule.
C3_EnvOverrideDecides ==
    \A r \in Replicas :
        (HasResolved(r) /\ ~roleFile[r].exists)
        => /\ SameLetters(replicaRole[r], S_writer)
                 => resolved[r] = [role |-> "Writer", rule |-> "env"]
           /\ SameLetters(replicaRole[r], S_reader)
                 => resolved[r] = [role |-> "Reader", rule |-> "env"]
           /\ (~SameLetters(replicaRole[r], S_writer)
               /\ ~SameLetters(replicaRole[r], S_reader))
                 => resolved[r].rule \in {"ordinal", "sorted"}

C3_Witness ==
    /\ \E r \in Replicas :
          /\ ~roleFile[r].exists
          /\ hostname[r] = H_app_0
          /\ replicaRole[r] = <<"R", "e", "a", "d", "e", "r">>
          /\ resolved[r].role = "Reader"
    /\ \E r \in Replicas :
          /\ ~roleFile[r].exists
          /\ hostname[r] = H_app_1
          /\ replicaRole[r] = <<"W", "R", "I", "T", "E", "R">>
          /\ resolved[r].role = "Writer"

\* C4: without a role file and without a valid REPLICA_ROLE, a host name
\* whose token after the last "-" is all digits gives Writer iff that number
\* is 0; so of the replicas app-0 and app-1 exactly app-0 is Writer.
C4_OrdinalZeroIsWriter ==
    /\ \A r \in Replicas :
          (HasResolved(r) /\ NoOverride(r) /\ EndsInOrdinal(r))
          => /\ resolved[r].rule = "ordinal"
             /\ (resolved[r].role = "Writer"
                 <=> ParseInt(LastToken(hostname[r], "-")) = 0)
             /\ hostname[r] \in {H_app_0, H_app_00} => resolved[r].role = "Writer"
             /\ hostname[r] \in {H_app_1, H_app_10} => resolved[r].role = "Reader"
    /\ (/\ \A r \in Replicas : HasResolved(r) /\ NoOverride(r)
        /\ {hostname[r] : r \in Replicas} = {H_app_0, H_app_1})
       => Writers = {r \in Replicas : hostname[r] = H_app_0}

C4_Witness ==
    /\ \A r \in Replicas : HasResolved(r) /\ NoOverride(r)
    /\ {hostname[r] : r \in Replicas} = {H_app_00, H_app_10}
    /\ Cardinality(Writers) = 1

\* C6: a failure while reading the role file never leaves is_writer_pod() as
\* a fault: every call returns Writer or Reader.
C6_ResolutionNeverFaults ==
    \A r \in Replicas :
        HasResolved(r) => resolved[r].role \in {"Writer", "Reader"}

(***************************************************************************)
(* Properties of the collection-ensuring step, checked under SpecStartup   *)
(***************************************************************************)
EnsureDone(r) == ensure[r].result # "none"

\* C7: when the collection-ensuring step has run on two replicas, one after
\* the other or interleaved in any order, against a store that answered every
\* call, exactly one collection SFBUDocuments exists and neither run raised.
C7_EnsureTwiceOneCollection ==
    \A r1, r2 \in Replicas :
        (/\ r1 # r2
         /\ EnsureDone(r1) /\ EnsureDone(r2)
         /\ ~ensure[r1].fault /\ ~ensure[r2].fault)
        => /\ collections = 1
           /\ ensure[r1].result = "ok"
           /\ ensure[r2].result = "ok"

C7_Witness ==
    \E r1, r2 \in Replicas :
        /\ ensure[r1].create = "ok"
        /\ ensure[r2].lookup = "failed"
        /\ ensure[r2].create = "failed"
        /\ ensure[r2].relookup = "ok"
        /\ ~ensure[r1].fault /\ ~ensure[r2].fault
        /\ collections = 1

\* C8: the collection-ensuring step raises only when its lookup, its creation
\* attempt and its re-lookup have all failed; when it found the collection at
\* the first lookup, created it, or found it at the re-lookup, it does not
\* raise.
C8_RaisesOnlyWhenAllFailed ==
    \A r \in Replicas :
        /\ ensure[r].result = "raised"
              => /\ ensure[r].lookup = "failed"
                 /\ ensure[r].create = "failed"
                 /\ ensure[r].relookup = "failed"
        /\ (\/ ensure[r].lookup = "ok"
            \/ ensure[r].create = "ok"
            \/ ensure[r].relookup = "ok")
              => ensure[r].result = "ok"

C8_Witness ==
    /\ \E r \in Replicas : ensure[r].result = "raised"
    /\ \E r \in Replicas : ensure[r].relookup = "ok" /\ ensure[r].result = "ok"

(***************************************************************************)
(* Properties of the script run, checked under Spec                        *)
(***************************************************************************)
\* C5: every role decision of a process (sidebar indicator, upload gate, the
\* gate of embed_documents) gives the role its first resolution gave, also
\* when the role file or REPLICA_ROLE changes in between.
C5_RoleFixedForLifetime ==
    \A r \in Replicas :
        (firstRole[r] # "none" /\ resolved[r].role \in {"Writer", "Reader"})
        => resolved[r].role = firstRole[r]

\* embed_documents is called on r in this step
EmbedCalled(r) == lastEmbed[r] = NoEmbed /\ lastEmbed'[r] # NoEmbed

\* C9: on a replica whose role resolves to Reader, embed_documents returns
\* False with the not-writer warning (or the not-initialized error) and
\* without calling add_documents, and leaves has_documents and the document
\* count of the collection as they were.
C9_ReaderEmbedChangesNothing ==
    [][\A r \in Replicas :
          (EmbedCalled(r) /\ RoleCall(r).role = "Reader")
          => /\ lastEmbed'[r].ret = "False"
             /\ lastEmbed'[r].notice \in {"warning_not_writer",
                                          "error_not_initialized"}
             /\ vector_store[r] => lastEmbed'[r].notice = "warning_not_writer"
             /\ ~lastEmbed'[r].add_called
             /\ has_documents'[r] = has_documents[r]
             /\ docCount' = docCount]_vars

C9_Witness ==
    \E r \in Replicas :
        /\ lastEmbed[r].notice = "warning_not_writer"
        /\ lastEmbed[r].role = "Reader"
        /\ firstRole[r] = "Writer"
        /\ has_documents[r]
        /\ docCount > 0

\* C10: the value embed_documents returns to a non-writer differs from the
\* value it returns when ingestion fails (vector store not initialised, or
\* add_documents raising).
C10_RejectedDistinctFromFailure ==
    \A r \in Replicas :
        lastEmbed[r].notice = "warning_not_writer"
        => /\ lastEmbed[r].ret # embed_documents(FALSE, RoleCall(r), TRUE).ret
           /\ lastEmbed[r].ret #
                 embed_documents(TRUE, [role |-> "Writer", rule |-> "env"],
                                 FALSE).ret

\* rag_chatbot_app is called on r in this step
ChatCalled(r) == lastAnswer[r] = NoAnswer /\ lastAnswer'[r] # NoAnswer

\* C11: rag_chatbot_app called with the retriever available and
\* has_documents false returns the fixed "No documents found" message, and
\* neither the retriever nor the completion model is invoked in that call.
C11_NoDocumentsSkipsRetrieval ==
    [][\A r \in Replicas :
          (ChatCalled(r) /\ retriever[r] /\ ~has_documents[r])
          => /\ lastAnswer'[r].text = "no_documents"
             /\ ~lastAnswer'[r].retrieved
             /\ ~lastAnswer'[r].generated]_vars

C11_Witness ==
    \E r \in Replicas :
        /\ lastAnswer[r].text = "no_documents"
        /\ retriever[r] /\ llm[r]
        /\ docCount > 0

\* C12: no fault leaves rag_chatbot_app: in every state it is called in, it
\* returns a text, and a failing retrieval or generation gives the
\* error-description text.
C12_AnswerNeverFaults ==
    \A r \in Replicas :
        lastAnswer[r] # NoAnswer
        => /\ ~lastAnswer[r].fault
           /\ lastAnswer[r].text \in {"not_initialized", "no_documents",
                                      "llm_not_initialized", "answer",
                                      "error_description"}
           /\ lastAnswer[r].chain \in {"retrieval_fails", "generation_fails"}
                 => lastAnswer[r].text = "error_description"

C12_Witness ==
    /\ \E r \in Replicas :
          /\ lastAnswer[r].chain = "generation_fails"
          /\ lastAnswer[r].text = "error_description"
          /\ lastAnswer[r].generated

\* C13: has_documents, once true, is never set back to false, by start-up,
\* by the count check, by embed_documents or by rag_chatbot_app.
C13_HasDocumentsMonotonic ==
    [][\A r \in Replicas : has_documents[r] => has_documents'[r]]_vars

C13_Witness ==
    \E r \in Replicas :
        /\ has_documents[r]
        /\ ensure[r].count \in {"zero", "failed"}
        /\ lastEmbed[r] = NoEmbed

\* the count check of init_vector_store runs on r in this step
CountChecked(r) == ensure[r].count = "none" /\ ensure'[r].count # "none"

\* C14: the count check sets has_documents when the count is greater than 0;
\* when the count is 0 or the request fails, has_documents keeps its value
\* and init_vector_store still returns, without raising.
C14_CountCheckSeedsFlag ==
    [][\A r \in Replicas :
          CountChecked(r)
          => /\ ensure'[r].count = "positive" => has_documents'[r]
             /\ ensure'[r].count \in {"zero", "failed"}
                   => /\ has_documents'[r] = has_documents[r]
                      /\ ensure'[r].returned
                      /\ ensure'[r].result = "ok"]_vars

C14_Witness ==
    \E r \in Replicas :
        /\ ensure[r].count = "failed"
        /\ ensure[r].returned
        /\ vector_store[r]
        /\ ~has_documents[r]
        /\ docCount > 0

\* C15: on a Writer with an initialised vector store, embed_documents sets
\* has_documents and returns True when the store takes the documents; when
\* the store call fails it returns False, no fault leaves it, and
\* has_documents keeps its value.
C15_WriterEmbedOutcome ==
    [][\A r \in Replicas :
          (EmbedCalled(r) /\ vector_store[r] /\ RoleCall(r).role = "Writer")
          => /\ lastEmbed'[r].ret \in {"True", "False"}
             /\ lastEmbed'[r].add_called
             /\ docCount' # docCount => lastEmbed'[r].ret = "True"
             /\ lastEmbed'[r].ret = "True"
                   => has_documents'[r] /\ lastEmbed'[r].notice = "success"
             /\ lastEmbed'[r].ret = "False"
                   => /\ lastEmbed'[r].notice = "error_embedding"
                      /\ has_documents'[r] = has_documents[r]
                      /\ docCount' = docCount]_vars

C15_Witness ==
    \E r \in Replicas :
        /\ lastEmbed[r].notice = "error_embedding"
        /\ lastEmbed[r].add_called
        /\ ~has_documents[r]

\* C17: once the script run that staged an upload in a temporary file has
\* ended, that file is gone, whether or not the process button was pressed.
C17_NoTempFileAfterRun ==
    \A r \in Replicas : pc[r] = "idle" => tempFiles[r] = 0

\* C18: with a credential or the URL missing, start-up does not halt: the
\* script run goes on with llm, vector_store and retriever unavailable.
C18_MissingCredentialDoesNotHalt ==
    \A r \in Replicas : pc[r] # "stopped"

\* C20: has_documents is true only if the collection holds at least one
\* document.
C20_FlagImpliesContent ==
    \A r \in Replicas : has_documents[r] => docCount >= 1

\* the loader kinds load_documents dispatches, "wiki" being the tag the code
\* gives the encyclopedia loader
SupportedKinds == {"pdf", "text", "web", "wiki"}

\* the loader that belongs to each supported kind
OwnLoader(kind) ==
    CASE kind = "pdf" -> "PyPDFLoader"
      [] kind = "text" -> "TextLoader"
      [] kind = "web" -> "WebBaseLoader"
      [] kind = "wiki" -> "WikipediaLoader"

\* C16: load_documents called with a loader kind outside {pdf, text, web,
\* wiki} fails with ValueError before a loader is constructed or run; every
\* kind in that set goes to its own loader, which is constructed on the
\* given path and run.
C16_UnsupportedKindFailsFast ==
    loadCall # NoLoad
    => /\ loadCall.kind \notin SupportedKinds
             => /\ loadCall.result = "ValueError"
                /\ loadCall.loader = "none"
                /\ ~loadCall.ran
       /\ loadCall.kind \in SupportedKinds
             => /\ loadCall.loader = OwnLoader(loadCall.kind)
                /\ loadCall.arg \in FilePaths
                /\ loadCall.ran
                /\ loadCall.result \in {"chunks", "loader_raised"}

C16_Witness ==
    /\ loadCall.kind = "docx"
    /\ loadCall.result = "ValueError"

\* C22: the "Processed ... successfully" report of a process button's branch
\* is emitted only if embed_documents returned True in that branch.
C22_ReportOnlyOnSuccess ==
    \A r \in Replicas : report[r].emitted => lastEmbed[r].ret = "True"

\* log is old with zero or more messages put after it
Extends(old, log) ==
    /\ Len(log) >= Len(old)
    /\ SubSeq(log, 1, Len(old)) = old

\* log alternates user, assistant, starting with user and ending with
\* assistant
WellPaired(log) ==
    /\ Len(log) % 2 = 0
    /\ \A i \in 1..Len(log) :
          log[i].role = IF i % 2 = 1 THEN "user" ELSE "assistant"

====
